---- MODULE Spec2Model ----
(***************************************************************************)
(* The morphing Christmas tree scene: src/App.tsx (SceneContent, TopStar,  *)
(* App.toggleMode), src/components/Foliage.tsx and                         *)
(* src/components/Ornaments.tsx.                                           *)
(*                                                                         *)
(* Numbers.  JavaScript doubles are modelled in fixed point:               *)
(*   - a fraction (morph progress, an eased progress, a Math.random()      *)
(*     sample, a sine) is an integer number of 1/Scale;                    *)
(*   - a length (a coordinate) is an integer number of 1/PosScale;         *)
(*   - an angle is an integer number of milliradians;                      *)
(*   - a time is an integer number of milliseconds.                        *)
(* Every arithmetic operation rounds to the nearest representable value,   *)
(* as IEEE-754 does.  Products stay below 2^31.                            *)
(***************************************************************************)
EXTENDS Integers, Sequences, FiniteSets, TLC

\* Resolution of a fraction: 1/Scale.
Scale == 10000
\* Resolution of a length: 1/PosScale.
PosScale == 100
\* Largest finite element count a field is constructed with.
MaxCount == 2
\* Number of distinct seeds the Math.random() generator may start from.
NumSeeds == 1
\* Number of clicks on the button a behaviour explores.
MaxToggles == 2

\* Math.PI in milliradians.
Pi == 3142
HalfPi == Pi \div 2

----------------------------------------------------------------------------
(* Arithmetic                                                              *)

\* a / b rounded to the nearest integer (b > 0).
RoundDiv(a, b) == (2 * a + b) \div (2 * b)

Abs(a) == IF a < 0 THEN -a ELSE a

\* A literal of the source, n/d, as a fraction / as a length.
Frac(n, d) == RoundDiv(n * Scale, d)
Units(n, d) == RoundDiv(n * PosScale, d)

\* a * f for a fraction f (a is a length or a fraction).
MulFrac(a, f) == RoundDiv(a * f, Scale)

\* Math.exp(-m/1000) as a fraction, m >= 0: the integer part of the exponent
\* by repeated multiplication with e^-1, the rest by the Taylor polynomial of
\* degree 5 in Horner form.
RECURSIVE ExpNeg(_)
ExpNeg(m) ==
    IF m >= 1000
    THEN MulFrac(ExpNeg(m - 1000), Frac(36788, 100000))
    ELSE LET h5 == Scale - RoundDiv(m * Scale, 5000)
             h4 == Scale - RoundDiv(m * h5, 4000)
             h3 == Scale - RoundDiv(m * h4, 3000)
             h2 == Scale - RoundDiv(m * h3, 2000)
         IN  Scale - RoundDiv(m * h2, 1000)

\* Math.sin(a) as a fraction, a in milliradians: reduction to [0, pi) and
\* Bhaskara's rational approximation 16x(pi-x) / (5pi^2 - 4x(pi-x)).
SinHalf(x) ==
    LET q == x * (Pi - x)
        num == (16 * q) \div 1000
        den == (5 * Pi * Pi - 4 * q) \div 1000
    IN  RoundDiv(num * Scale, den)

Sin(a) ==
    LET r == a % (2 * Pi)
    IN  IF r < Pi THEN SinHalf(r) ELSE -SinHalf(r - Pi)

\* Math.cos(a).
Cos(a) == Sin(a + HalfPi)

\* Math.sqrt(u) for a fraction u in [0,1]: the largest r with r*r <= u*Scale,
\* by bisection.
RECURSIVE SqrtBisect(_, _, _)
SqrtBisect(u, lo, hi) ==
    IF hi - lo <= 1 THEN lo
    ELSE LET mid == (lo + hi) \div 2
         IN  IF mid * mid <= u * Scale
             THEN SqrtBisect(u, mid, hi)
             ELSE SqrtBisect(u, lo, mid)

Sqrt(u) == IF u >= Scale THEN Scale ELSE SqrtBisect(u, 0, Scale)

\* Math.acos(v) in milliradians for a fraction v in [-1,1]: the angle in
\* [0, pi] whose cosine is v, by bisection (cos decreases on [0, pi]).
RECURSIVE AcosBisect(_, _, _)
AcosBisect(v, lo, hi) ==
    IF hi - lo <= 1 THEN lo
    ELSE LET mid == (lo + hi) \div 2
         IN  IF Cos(mid) >= v
             THEN AcosBisect(v, mid, hi)
             ELSE AcosBisect(v, lo, mid)

Acos(v) == IF v <= -Scale THEN Pi ELSE AcosBisect(v, 0, Pi)

\* Math.pow(u, 0.8) for a fraction u in [0,1]: linear interpolation in the
\* table of (k/8)^0.8, k = 0..8.
PowTable == <<0, 1895, 3299, 4563, 5743, 6866, 7944, 8987, 10000>>

Pow08(u) ==
    LET k == IF u >= Scale THEN 7 ELSE (8 * u) \div Scale
        lo == PowTable[k + 1]
        hi == PowTable[k + 2]
        w == 8 * u - k * Scale
    IN  RoundDiv(RoundDiv(lo * (Scale - w) + hi * w, Scale) * Scale, 10000)

----------------------------------------------------------------------------
(* JavaScript numbers that may be non-finite: the construction inputs      *)

Fin(n) == [k |-> "fin", v |-> n]
NaN == [k |-> "nan", v |-> 0]
PosInf == [k |-> "inf", v |-> 1]
NegInf == [k |-> "inf", v |-> -1]

IsFinite(a) == a.k = "fin"

\* a * n for a positive integer literal n.
TimesInt(a, n) == IF IsFinite(a) THEN Fin(a.v * n) ELSE a

\* i < a for a loop index i: false against NaN.
IndexBelow(i, a) ==
    CASE a.k = "fin" -> i < a.v
      [] a.k = "inf" -> a.v > 0
      [] OTHER -> FALSE

\* new Float32Array(a): the length ToIndex(a) gives, or -1 for the
\* RangeError a negative or infinite length raises.  NaN converts to 0.
TypedArrayLength(a) ==
    CASE a.k = "nan" -> 0
      [] a.k = "inf" -> -1
      [] OTHER -> IF a.v < 0 THEN -1 ELSE a.v

\* Object.is(a, b), the comparison of useMemo's dependencies.
ObjectIs(a, b) == a = b

----------------------------------------------------------------------------
(* Math.random(): a generator with hidden state, here the full-period      *)
(* congruential generator s -> 5s + 3 (mod 16) with output s/16 in [0,1).  *)

RandomNext(s) == (5 * s + 3) % 16

RandomValue(s) == RoundDiv(s * Scale, 16)

\* The generator's state after n further calls.
RECURSIVE RandomAfter(_, _)
RandomAfter(s, n) == IF n = 0 THEN s ELSE RandomAfter(RandomNext(s), n - 1)

\* The value the n-th call from state s returns (n = 1 is the next call).
Random(s, n) == RandomValue(RandomAfter(s, n))

----------------------------------------------------------------------------
(* THREE.MathUtils                                                         *)

\* lerp(x, y, t) = (1 - t) * x + t * y, t a fraction.
Lerp(x, y, t) == RoundDiv((Scale - t) * x + t * y, Scale)

\* The smoothing constant of the morph, 2.5, in tenths.
LambdaTenths == 25

\* A ramp of a fixed step per frame instead of the exponential approach.
DampLinearStep(x, y, lambdaTenths, dt) ==
    IF dt = 0 THEN x ELSE IF y > x THEN x + (Scale \div 4) ELSE x - (Scale \div 4)

\* The exponent with the wrong sign: the interpolation factor is negative.
DampSignError(x, y, lambdaTenths, dt) ==
    Lerp(x, y, ExpNeg(RoundDiv(lambdaTenths * dt, 10)) - Scale)

\* The frame delta left out of the exponent.
DampIgnoresDelta(x, y, lambdaTenths, dt) ==
    Lerp(x, y, Scale - ExpNeg(RoundDiv(lambdaTenths * 1000, 10)))

\* damp(x, y, lambda, dt) = lerp(x, y, 1 - Math.exp(-lambda * dt)), dt in ms.
Damp(x, y, lambdaTenths, dt) ==
    Lerp(x, y, Scale - ExpNeg(RoundDiv(lambdaTenths * dt, 10)))

\* 1 - Math.pow(1 - t, 3), the ease of the ornaments.
EaseOutCubic(t) ==
    LET u == Scale - t
    IN  Scale - MulFrac(MulFrac(u, u), u)

\* GLSL smoothstep(0.0, 1.0, x): clamp, then x*x*(3 - 2x).
Smoothstep(x) ==
    LET c == IF x < 0 THEN 0 ELSE IF x > Scale THEN Scale ELSE x
    IN  MulFrac(MulFrac(c, c), 3 * Scale - 2 * c)

----------------------------------------------------------------------------
(* Shape generation at field construction                                  *)

\* Foliage: height and radiusBase of the cone.
FoliageHeight == 14
FoliageRadiusBase == 5
\* Ornaments: height of the cone (its radiusBase is 4.8).
OrnamentsHeight == 13

\* A point of the scatter shell: radius minRadius + random * spread, direction
\* from sTheta = random * 2pi and sPhi = acos(2 * random - 1).
ScatterPoint(minRadius, spread, uR, uTheta, uPhi) ==
    LET sr == Units(minRadius, 1) + MulFrac(Units(spread, 1), uR)
        sTheta == MulFrac(2 * Pi, uTheta)
        sPhi == Acos(2 * uPhi - Scale)
    IN  << MulFrac(MulFrac(sr, Sin(sPhi)), Cos(sTheta)),
           MulFrac(MulFrac(sr, Sin(sPhi)), Sin(sTheta)),
           MulFrac(sr, Cos(sPhi)) >>

\* One iteration of Foliage's generation loop, the generator in state s: the
\* particle's tree position, scatter position and random seed.
FoliageParticle(s) ==
    LET yNorm == Pow08(Random(s, 1))
        y == MulFrac(Units(FoliageHeight, 1), yNorm) - Units(FoliageHeight, 2)
        r == MulFrac(Units(FoliageRadiusBase, 1), Scale - yNorm)
        theta == MulFrac(2 * Pi, Random(s, 2))
        rad == MulFrac(r, Sqrt(Random(s, 3)))
    IN  [ tree |-> << MulFrac(rad, Cos(theta)), y, MulFrac(rad, Sin(theta)) >>,
          scatter |-> ScatterPoint(15, 10, Random(s, 4), Random(s, 5), Random(s, 6)),
          random |-> Random(s, 7) ]

\* The generation loop of Foliage from index i on.
RECURSIVE FoliageLoopOffByOne(_, _, _, _)
FoliageLoopOffByOne(i, count, s, acc) ==
    IF (IsFinite(count) /\ i <= count.v) \/ IndexBelow(i, count)
    THEN LET e == FoliageParticle(s)
         IN  FoliageLoopOffByOne(i + 1, count, RandomAfter(s, 7),
                 [ positions |-> Append(acc.positions, e.tree),
                   scatterPositions |-> Append(acc.scatterPositions, e.scatter),
                   randoms |-> Append(acc.randoms, e.random),
                   rng |-> RandomAfter(s, 7) ])
    ELSE acc

RECURSIVE FoliageLoop(_, _, _, _)
FoliageLoop(i, count, s, acc) ==
    IF IndexBelow(i, count)
    THEN LET e == FoliageParticle(s)
         IN  FoliageLoop(i + 1, count, RandomAfter(s, 7),
                 [ positions |-> Append(acc.positions, e.tree),
                   scatterPositions |-> Append(acc.scatterPositions, e.scatter),
                   randoms |-> Append(acc.randoms, e.random),
                   rng |-> RandomAfter(s, 7) ])
    ELSE acc

\* Foliage's useMemo body: the three Float32Array allocations, then the loop.
\* ok is FALSE when an allocation raises a RangeError.
GenerateFoliage(count, s) ==
    LET empty == [ positions |-> <<>>, scatterPositions |-> <<>>,
                   randoms |-> <<>>, rng |-> s ]
    IN  IF TypedArrayLength(TimesInt(count, 3)) < 0 \/ TypedArrayLength(count) < 0
        THEN [ ok |-> FALSE, v |-> empty ]
        ELSE [ ok |-> TRUE, v |-> FoliageLoop(0, count, s, empty) ]

\* One iteration of Ornaments' generation loop for index i: a PositionData.
OrnamentItem(i, s) ==
    LET yNorm == Random(s, 1)
        y == MulFrac(Units(OrnamentsHeight, 1), yNorm) - Units(OrnamentsHeight, 2)
        r == MulFrac(Units(48, 10), Scale - yNorm)
        theta == RoundDiv(y * 2 * 1000, PosScale) + i * RoundDiv(1618 * 2 * Pi, 1000)
    IN  [ tree |-> << MulFrac(r, Cos(theta)), y, MulFrac(r, Sin(theta)) >>,
          scatter |-> ScatterPoint(12, 12, Random(s, 2), Random(s, 3), Random(s, 4)),
          rotation |-> << MulFrac(Pi, Random(s, 5)), MulFrac(Pi, Random(s, 6)), 0 >>,
          scale |-> Frac(1, 2) + MulFrac(Frac(1, 2), Random(s, 7)) ]

\* The generation loop of Ornaments from index i on.
RECURSIVE OrnamentsLoop(_, _, _, _)
OrnamentsLoop(i, count, s, acc) ==
    IF IndexBelow(i, count)
    THEN OrnamentsLoop(i + 1, count, RandomAfter(s, 7),
             [ items |-> Append(acc.items, OrnamentItem(i, s)),
               rng |-> RandomAfter(s, 7) ])
    ELSE acc

\* Ornaments' useMemo body.  With count = Infinity the loop never ends (it
\* pushes items until the heap is exhausted): ok is FALSE.
GenerateOrnaments(count, s) ==
    LET empty == [ items |-> <<>>, rng |-> s ]
    IN  IF count = PosInf
        THEN [ ok |-> FALSE, v |-> empty ]
        ELSE [ ok |-> TRUE, v |-> OrnamentsLoop(0, count, s, empty) ]

\* <instancedMesh args={[geometry, undefined, count]}>: THREE.InstancedMesh
\* allocates new Float32Array(count * 16) for instanceMatrix; the result is
\* the number of instance slots, or -1 for the RangeError.
InstancedMeshSlots(count) ==
    LET len == TypedArrayLength(TimesInt(count, 16))
    IN  IF len < 0 THEN -1 ELSE len \div 16

\* React's useMemo(create, deps) on a re-render: the cached value while the
\* dependencies are unchanged, a fresh one otherwise.
UseMemoAlwaysFresh(cached, prevDeps, deps, fresh) == fresh

UseMemo(cached, prevDeps, deps, fresh) ==
    IF ObjectIs(prevDeps, deps) THEN cached ELSE fresh

----------------------------------------------------------------------------
(* State                                                                   *)

VARIABLES
    props,          \* the construction inputs: Foliage's count, Ornaments' count and scaleBase
    status,         \* "unmounted", "mounted", or "crashed" (construction threw)
    rng,            \* the hidden state of Math.random()
    mode,           \* App's mode state
    audioStarted,   \* App's audioStarted state
    morphProgress,  \* SceneContent's morphProgress.current
    subscribers,    \* the useFrame callbacks, in subscription order
    foliage,        \* Foliage: memoized arrays, shaderRef, the uTime and uMorph uniforms
    ornaments,      \* Ornaments: memoized data, meshRef, the instanceMatrix buffer
    topStar,        \* TopStar: groupRef and the group's transform
    frameLog,       \* what the callbacks of the latest frame did, in order
    toggles         \* the number of clicks on the button so far

vars == << props, status, rng, mode, audioStarted, morphProgress, subscribers,
           foliage, ornaments, topStar, frameLog, toggles >>

\* The frame deltas (ms) the render loop hands to the callbacks: a repeated
\* timestamp, 30 and 10 frames per second, and a long stall.
FrameDeltas == {0, 100, 4000}

\* The values (ms) clock.elapsedTime takes.
TimeSamples == {4000, 5300}

\* The element counts and scale bases a field is constructed with.
CountInputs == {Fin(n) : n \in -1..MaxCount} \cup {NaN, PosInf, NegInf}
ScaleInputs == {Fin(Frac(1, 2)), Fin(-Frac(1, 2)), NaN, PosInf}

Event(who, op, val) == [who |-> who, op |-> op, val |-> val]

----------------------------------------------------------------------------
(* The useFrame callbacks.  Each maps the mutable store st (the fields the *)
(* callbacks read and write during one frame) to the store after it ran.   *)

\* SceneContent (App.tsx 111-115).
SceneContentFrame(st, time, delta) ==
    LET target == IF mode = "TREE_SHAPE" THEN Scale ELSE 0
        next == Damp(st.morphProgress, target, LambdaTenths, delta)
    IN  [ st EXCEPT !.morphProgress = next,
                    !.log = Append(@, Event("SceneContent", "write", next)) ]

\* Foliage (Foliage.tsx 133-138).
FoliageFrame(st, time, delta) ==
    IF st.foliage.shaderRef
    THEN [ st EXCEPT !.foliage.uTime = time,
                     !.foliage.uMorph = st.morphProgress,
                     !.log = Append(@, Event("Foliage", "read", st.morphProgress)) ]
    ELSE st

\* TopStar (App.tsx 43-71).
TopStarFrame(st, time, delta) ==
    IF ~st.topStar.groupRef THEN st
    ELSE
    LET t == st.morphProgress
        scatterY == Units(20, 1) + MulFrac(Units(2, 1), Sin(time))
        treeY == Units(76, 10)
        scatterOffset == Units(5, 1)
        currentX == Lerp(MulFrac(scatterOffset, Sin(RoundDiv(time, 2))), 0, t)
        currentY == Lerp(scatterY, treeY, t)
        currentZ == Lerp(MulFrac(scatterOffset, Cos(RoundDiv(time, 2))), 0, t)
        scaleBase == Lerp(Frac(1, 2), Scale, t)
        pulse == Scale + MulFrac(Frac(5, 100), Sin(RoundDiv(time * 25, 10)))
    IN  [ st EXCEPT !.topStar.position = << currentX, currentY, currentZ >>,
                    !.topStar.rotationY = RoundDiv(time * 4, 10),
                    !.topStar.rotationZ = MulFrac(50, Sin(RoundDiv(time, 2))),
                    !.topStar.scale = MulFrac(scaleBase, pulse),
                    !.log = Append(@, Event("TopStar", "read", t)) ]

\* item.scale * scaleBase * pulse: NaN and Infinity propagate.
InstanceScale(itemScale, scaleBase, pulse) ==
    IF IsFinite(scaleBase)
    THEN Fin(MulFrac(MulFrac(itemScale, scaleBase.v), pulse))
    ELSE scaleBase

\* The body of data.forEach in Ornaments (Ornaments.tsx 66-93) for one item:
\* the matrix dummy.updateMatrix() composes.
OrnamentMatrixEasedJitter(item, i, t, time, scaleBase) ==
    LET easedT == EaseOutCubic(t)
        floatAmp == MulFrac(Units(1, 2), Scale - easedT)
    IN  [ position |->
            << Lerp(item.scatter[1], item.tree[1], easedT)
                   + MulFrac(floatAmp, Sin(time + 1000 * i)),
               Lerp(item.scatter[2], item.tree[2], easedT)
                   + MulFrac(floatAmp, Cos(RoundDiv(time * 8, 10) + 1000 * i)),
               Lerp(item.scatter[3], item.tree[3], easedT)
                   + MulFrac(floatAmp, Sin(time + 1000 * i)) >>,
          rotation |-> item.rotation,
          scale |-> InstanceScale(item.scale, scaleBase, Scale) ]

OrnamentMatrix(item, i, t, time, scaleBase) ==
    LET easedT == EaseOutCubic(t)
        cx == Lerp(item.scatter[1], item.tree[1], easedT)
        cy == Lerp(item.scatter[2], item.tree[2], easedT)
        cz == Lerp(item.scatter[3], item.tree[3], easedT)
        floatAmp == MulFrac(Units(1, 2), Scale - t)
        fx == cx + MulFrac(floatAmp, Sin(time + 1000 * i))
        fy == cy + MulFrac(floatAmp, Cos(RoundDiv(time * 8, 10) + 1000 * i))
        fz == cz
        s == InstanceScale(item.scale, scaleBase,
                 Frac(8, 10) + MulFrac(Frac(2, 10), Sin(time + 1000 * i)))
    IN  [ position |-> << fx, fy, fz >>,
          rotation |-> << item.rotation[1] + MulFrac(RoundDiv(time, 2), Scale - t),
                          item.rotation[2] + MulFrac(time, Frac(2, 10) + (Scale - t)),
                          item.rotation[3] >>,
          scale |-> s ]

\* meshRef.current.setMatrixAt(i, m): a write into slot i of instanceMatrix;
\* a write outside the allocated Float32Array is dropped.
SetMatrixAt(buffer, i, m) ==
    IF i + 1 \in DOMAIN buffer THEN [ buffer EXCEPT ![i + 1] = m ] ELSE buffer

\* data.forEach from index i on.
RECURSIVE OrnamentsForEach(_, _, _, _)
OrnamentsForEach(st, i, t, time) ==
    IF i >= Len(st.ornaments.data) THEN st
    ELSE CHOOSE out \in
           { OrnamentsForEach(
                 [ st EXCEPT !.ornaments.instanceMatrix = SetMatrixAt(@, i, m),
                             !.log = Append(@, Event("Ornaments", "setMatrixAt", i)) ],
                 i + 1, t, time) :
               m \in { OrnamentMatrix(st.ornaments.data[i + 1], i, t, time,
                                      props.scaleBase) } } : TRUE

\* The buffer marked dirty before the instances are processed.
OrnamentsFrameDirtyFirst(st, time, delta) ==
    IF ~st.ornaments.meshRef THEN st
    ELSE
    LET t == st.morphProgress
        read == [ st EXCEPT !.log = Append(Append(@, Event("Ornaments", "read", t)),
                                           Event("Ornaments", "needsUpdate", 0)) ]
    IN  OrnamentsForEach(read, 0, t, time)

\* Ornaments (Ornaments.tsx 57-96).
OrnamentsFrame(st, time, delta) ==
    IF ~st.ornaments.meshRef THEN st
    ELSE
    LET t == st.morphProgress
        read == [ st EXCEPT !.log = Append(@, Event("Ornaments", "read", t)) ]
    IN  [ OrnamentsForEach(read, 0, t, time)
            EXCEPT !.log = Append(@, Event("Ornaments", "needsUpdate", 0)) ]

\* The render loop calling one subscriber.
Call(name, st, time, delta) ==
    CASE name = "SceneContent" -> SceneContentFrame(st, time, delta)
      [] name = "Foliage" -> FoliageFrame(st, time, delta)
      [] name = "TopStar" -> TopStarFrame(st, time, delta)
      [] name = "Ornaments" -> OrnamentsFrame(st, time, delta)

\* The render loop of one frame: every subscriber, in subscription order.
RECURSIVE RunSubscribers(_, _, _, _)
RunSubscribers(st, subs, time, delta) ==
    IF subs = <<>> THEN st
    ELSE CHOOSE out \in { RunSubscribers(next, Tail(subs), time, delta) :
                              next \in { Call(Head(subs), st, time, delta) } } : TRUE

\* One pass of the render loop over the store st; the log starts with the
\* delta and the elapsed time the loop hands to every callback.
RunFrame(st, subs, time, delta) ==
    RunSubscribers(
        [ st EXCEPT !.log = << Event("render", "delta", delta),
                               Event("render", "time", time) >> ],
        subs, time, delta)

----------------------------------------------------------------------------
(* Mounting                                                                *)

\* The components of SceneContent's subtree that call useFrame (App.tsx
\* 117-165), in JSX order.  The four <Ornaments> elements run the same code
\* on separate state; one stands for them.
Children(c) ==
    IF c = "SceneContent" THEN << "Foliage", "TopStar", "Ornaments" >> ELSE <<>>

\* useFrame subscribes in a layout effect, and React runs the layout effects
\* of a subtree children first, siblings in order, the parent last.  The
\* subscribers all have priority 0 and keep their subscription order.
RECURSIVE LayoutEffectOrderOf(_)
LayoutEffectOrderOf(cs) ==
    IF cs = <<>> THEN <<>>
    ELSE LayoutEffectOrderOf(Children(Head(cs))) \o << Head(cs) >>
             \o LayoutEffectOrderOf(Tail(cs))

\* The order of rendering instead: the parent first.
RenderOrder == << "SceneContent" >> \o Children("SceneContent")

LayoutEffectOrder == LayoutEffectOrderOf(<< "SceneContent" >>)

\* The buffer of a fresh InstancedMesh: identity matrices.
IdentityMatrix ==
    [ position |-> << 0, 0, 0 >>, rotation |-> << 0, 0, 0 >>, scale |-> Fin(Scale) ]

Unmounted ==
    /\ morphProgress = 0
    /\ subscribers = <<>>
    /\ foliage = [ positions |-> <<>>, scatterPositions |-> <<>>, randoms |-> <<>>,
                   deps |-> NaN, shaderRef |-> FALSE, uTime |-> 0, uMorph |-> 0 ]
    /\ ornaments = [ data |-> <<>>, deps |-> NaN, meshRef |-> FALSE,
                     instanceMatrix |-> <<>> ]
    /\ topStar = [ groupRef |-> FALSE, position |-> << 0, 0, 0 >>, rotationY |-> 0,
                   rotationZ |-> 0, scale |-> Scale ]
    /\ frameLog = <<>>

\* Foliage and Ornaments once constructed from the useMemo results f and o.
MountedFoliage(f, count) ==
    [ positions |-> f.v.positions, scatterPositions |-> f.v.scatterPositions,
      randoms |-> f.v.randoms, deps |-> count,
      shaderRef |-> TRUE, uTime |-> 0, uMorph |-> 0 ]

MountedOrnaments(o, count, slots) ==
    [ data |-> o.v.items, deps |-> count, meshRef |-> TRUE,
      instanceMatrix |-> [ i \in 1..slots |-> IdentityMatrix ] ]

\* The first render and commit of <SceneContent>: the render phase runs the
\* useMemo bodies of Foliage and Ornaments and creates the InstancedMesh; an
\* exception there unmounts the tree.  The commit attaches the refs and runs
\* the layout effects, which subscribe the useFrame callbacks.
Mount ==
    /\ status = "unmounted"
    /\ LET f == GenerateFoliage(props.foliageCount, rng)
           o == GenerateOrnaments(props.ornamentsCount, f.v.rng)
           slots == InstancedMeshSlots(props.ornamentsCount)
       IN  IF ~f.ok \/ ~o.ok \/ slots < 0
           THEN /\ status' = "crashed"
                /\ UNCHANGED << rng, morphProgress, subscribers, foliage, ornaments,
                                topStar, frameLog >>
           ELSE /\ status' = "mounted"
                /\ rng' = o.v.rng
                /\ morphProgress' = 0
                /\ foliage' = MountedFoliage(f, props.foliageCount)
                /\ ornaments' = MountedOrnaments(o, props.ornamentsCount, slots)
                /\ topStar' = [ topStar EXCEPT !.groupRef = TRUE ]
                /\ subscribers' = LayoutEffectOrder
                /\ frameLog' = <<>>
    /\ UNCHANGED << props, mode, audioStarted, toggles >>

----------------------------------------------------------------------------
(* The button                                                              *)

toggleModeResetsProgress ==
    /\ status # "crashed"
    /\ toggles < MaxToggles
    /\ toggles' = toggles + 1
    /\ mode' = IF mode = "SCATTERED" THEN "TREE_SHAPE" ELSE "SCATTERED"
    /\ audioStarted' = TRUE
    /\ morphProgress' = IF mode = "SCATTERED" THEN Scale ELSE 0
    /\ UNCHANGED << props, status, rng, subscribers, foliage, ornaments, topStar,
                    frameLog >>

\* App.toggleMode (App.tsx 177-180) and the re-render the state change causes:
\* SceneContent gets the new mode, Foliage and Ornaments run their useMemo
\* hooks again with the same count.
toggleMode ==
    /\ status # "crashed"
    /\ toggles < MaxToggles
    /\ toggles' = toggles + 1
    /\ mode' = IF mode = "SCATTERED" THEN "TREE_SHAPE" ELSE "SCATTERED"
    /\ audioStarted' = TRUE
    /\ IF status = "mounted"
       THEN LET f == UseMemo([ ok |-> TRUE, v |-> [ positions |-> foliage.positions,
                                   scatterPositions |-> foliage.scatterPositions,
                                   randoms |-> foliage.randoms, rng |-> rng ] ],
                             foliage.deps, props.foliageCount,
                             GenerateFoliage(props.foliageCount, rng))
                o == UseMemo([ ok |-> TRUE, v |-> [ items |-> ornaments.data,
                                                     rng |-> f.v.rng ] ],
                             ornaments.deps, props.ornamentsCount,
                             GenerateOrnaments(props.ornamentsCount, f.v.rng))
            IN  /\ foliage' = [ foliage EXCEPT !.positions = f.v.positions,
                                               !.scatterPositions = f.v.scatterPositions,
                                               !.randoms = f.v.randoms,
                                               !.deps = props.foliageCount ]
                /\ ornaments' = [ ornaments EXCEPT !.data = o.v.items,
                                                   !.deps = props.ornamentsCount ]
                /\ rng' = o.v.rng
       ELSE UNCHANGED << foliage, ornaments, rng >>
    /\ UNCHANGED << props, status, morphProgress, subscribers, topStar, frameLog >>

----------------------------------------------------------------------------
(* The render loop                                                         *)

\* One frame: the subscribers run in order on the current state, delta ms
\* after the previous frame, with clock.elapsedTime = time.
Frame(delta, time) ==
    /\ status = "mounted"
    /\ \E st \in { RunFrame(
                     [ morphProgress |-> morphProgress, foliage |-> foliage,
                       ornaments |-> ornaments, topStar |-> topStar, log |-> <<>> ],
                     subscribers, time, delta) } :
           /\ morphProgress' = st.morphProgress
           /\ foliage' = st.foliage
           /\ ornaments' = st.ornaments
           /\ topStar' = st.topStar
           /\ frameLog' = st.log
    /\ UNCHANGED << props, status, rng, mode, audioStarted, subscribers, toggles >>

Tick == \E delta \in FrameDeltas, time \in TimeSamples : Frame(delta, time)

----------------------------------------------------------------------------
(* Specifications                                                          *)

\* The props of the application, with the counts scaled down to MaxCount.
AppProps ==
    [ foliageCount |-> Fin(MaxCount), ornamentsCount |-> Fin(MaxCount),
      scaleBase |-> Fin(Frac(1, 2)) ]

\* The construction inputs: the application's props with one input changed.
PropsInputs ==
    { [ AppProps EXCEPT !.foliageCount = c ] : c \in CountInputs }
        \cup { [ AppProps EXCEPT !.ornamentsCount = c ] : c \in CountInputs }
        \cup { [ AppProps EXCEPT !.scaleBase = b ] : b \in ScaleInputs }

Init ==
    /\ props \in PropsInputs
    /\ status = "unmounted"
    /\ rng \in 0..(NumSeeds - 1)
    /\ mode = "SCATTERED"
    /\ audioStarted = FALSE
    /\ toggles = 0
    /\ Unmounted

Next == Mount \/ toggleMode \/ Tick

Spec == Init /\ [][Next]_vars

\* The morph driver alone: the application's scene, mounted, at any progress
\* of a grid and with either mode, which is then held while frames tick.  The
\* initial states are those a frame with delta 0 leaves.  The render loop
\* runs a frame on every display refresh: frames with a positive delta keep
\* coming.
ProgressSamples ==
    { (k * Scale) \div 8 : k \in 0..8 } \cup { 1, Scale - 1 }

InitHeld ==
    /\ props = AppProps
    /\ status = "mounted"
    /\ mode \in { "SCATTERED", "TREE_SHAPE" }
    /\ audioStarted = TRUE
    /\ toggles = IF mode = "TREE_SHAPE" THEN 1 ELSE 2
    /\ subscribers = LayoutEffectOrder
    /\ \E p \in ProgressSamples, time \in TimeSamples :
          LET f == GenerateFoliage(AppProps.foliageCount, 0)
              o == GenerateOrnaments(AppProps.ornamentsCount, f.v.rng)
              st == RunFrame(
                        [ morphProgress |-> p,
                          foliage |-> MountedFoliage(f, AppProps.foliageCount),
                          ornaments |-> MountedOrnaments(o, AppProps.ornamentsCount,
                                            InstancedMeshSlots(AppProps.ornamentsCount)),
                          topStar |-> [ groupRef |-> TRUE, position |-> << 0, 0, 0 >>,
                                        rotationY |-> 0, rotationZ |-> 0,
                                        scale |-> Scale ],
                          log |-> <<>> ],
                        LayoutEffectOrder, time, 0)
          IN  /\ rng = o.v.rng
              /\ morphProgress = st.morphProgress
              /\ foliage = st.foliage
              /\ ornaments = st.ornaments
              /\ topStar = st.topStar
              /\ frameLog = st.log

\* The frame deltas while the mode is held: those of FrameDeltas and 30 frames
\* per second.
HeldDeltas == FrameDeltas \cup {33}

\* A frame with a repeated timestamp, and a frame whose delta is positive.
TickZero == \E time \in TimeSamples : Frame(0, time)

TickPositive ==
    \E delta \in HeldDeltas \ {0}, time \in TimeSamples : Frame(delta, time)

NextHeld == TickZero \/ TickPositive

SpecHeld == InitHeld /\ [][NextHeld]_vars /\ WF_vars(TickPositive)

----------------------------------------------------------------------------
(* What is drawn                                                           *)

\* The `normal` the vertex shader reads: the geometry of Foliage declares no
\* normal attribute (Foliage.tsx 142-167), so it is the default (0, 0, 0).
NormalAttribute(i) == << 0, 0, 0 >>

FoliageVertexAlwaysWind(i) ==
    LET localProgress == Smoothstep(foliage.uMorph)
        seed == RoundDiv(foliage.randoms[i] * 10 * 1000, Scale)
    IN  << Lerp(foliage.scatterPositions[i][1], foliage.positions[i][1], localProgress)
               + MulFrac(Units(2, 10), Cos(RoundDiv(foliage.uTime * 3, 10) + seed)),
           Lerp(foliage.scatterPositions[i][2], foliage.positions[i][2], localProgress)
               + MulFrac(Units(2, 10), Sin(RoundDiv(foliage.uTime, 2) + seed)),
           Lerp(foliage.scatterPositions[i][3], foliage.positions[i][3], localProgress) >>

\* The position the vertex shader of Foliage (Foliage.tsx 37-53) gives
\* particle i under the current uniforms.
FoliageVertex(i) ==
    LET uMorph == foliage.uMorph
        uTime == foliage.uTime
        localProgress == Smoothstep(uMorph)
        seed == RoundDiv(foliage.randoms[i] * 10 * 1000, Scale)
        mixed == [ c \in 1..3 |->
                     Lerp(foliage.scatterPositions[i][c], foliage.positions[i][c],
                          localProgress) ]
        breath == MulFrac(Units(5, 100), Sin(2 * uTime + seed))
        breathed == [ c \in 1..3 |->
                        IF uMorph > Frac(8, 10)
                        THEN mixed[c] + RoundDiv(NormalAttribute(i)[c] * breath, PosScale)
                        ELSE mixed[c] ]
    IN  IF uMorph < Frac(2, 10)
        THEN << breathed[1] + MulFrac(Units(2, 10), Cos(RoundDiv(uTime * 3, 10) + seed)),
                breathed[2] + MulFrac(Units(2, 10), Sin(RoundDiv(uTime, 2) + seed)),
                breathed[3] >>
        ELSE << breathed[1], breathed[2], breathed[3] >>

----------------------------------------------------------------------------
(* Properties                                                              *)

\* The events of the latest frame with the given source and operation.
EventsOf(who, op) ==
    { i \in DOMAIN frameLog : frameLog[i].who = who /\ frameLog[i].op = op }

\* The delta and elapsed time of the latest frame.
LastDelta == frameLog[1].val
LastTime == frameLog[2].val

\* The target the damping chases under the current mode (App.tsx 112).
Target == IF mode = "TREE_SHAPE" THEN Scale ELSE 0

\* C1: with the target fixed, a tick never increases the distance between the
\* morph progress and the target, and never carries the progress to the other
\* side of the target.
C1_MonotoneNoOvershoot ==
    [][ /\ Abs(Target - morphProgress') <= Abs(Target - morphProgress)
        /\ morphProgress <= Target => morphProgress' <= Target
        /\ morphProgress >= Target => morphProgress' >= Target ]_vars

\* A tick with a positive delta has moved the progress strictly toward the
\* target without reaching it.
C1_Witness ==
    /\ frameLog # <<>>
    /\ LastDelta > 0
    /\ mode = "TREE_SHAPE"
    /\ foliage.uMorph < morphProgress
    /\ morphProgress < Scale

\* C3: from progress 0, through any toggles and ticks, the morph progress
\* stays within [0, 1].
C3_ProgressInUnitInterval == morphProgress >= 0 /\ morphProgress <= Scale

\* After two toggles and some ticks the progress is strictly inside (0, 1).
C3_Witness ==
    /\ toggles = 2
    /\ frameLog # <<>>
    /\ morphProgress > 0
    /\ morphProgress < Scale

\* C7: a tick with delta 0 leaves the morph progress as it was, for either
\* target and any progress.
C7_ZeroDeltaIdentity == [][ TickZero => morphProgress' = morphProgress ]_vars

\* A tick with delta 0 has run in the middle of a transition.
C7_Witness ==
    /\ frameLog # <<>>
    /\ LastDelta = 0
    /\ morphProgress > 0
    /\ morphProgress < Scale
    /\ EventsOf("SceneContent", "write") # {}

\* C2 as stated: in every frame the morph progress is written exactly once,
\* by SceneContent, and Foliage, Ornaments and TopStar read it after that
\* write, so that what Foliage hands to its shader is the progress of this
\* frame.
C2_ReadsAfterWrite ==
    frameLog # <<>> =>
        /\ Cardinality(EventsOf("SceneContent", "write")) = 1
        /\ \A w \in EventsOf("SceneContent", "write") :
             \A who \in { "Foliage", "Ornaments", "TopStar" } :
               \A r \in EventsOf(who, "read") : w < r
        /\ foliage.uMorph = morphProgress

\* C2 amended: in every frame the morph progress is written exactly once, by
\* SceneContent and by no other callback, and Foliage, Ornaments and TopStar
\* each read it once, before that write: they read the progress the previous
\* frame produced.
C2_WriteOnceAfterReads ==
    [][ (\E delta \in FrameDeltas \cup HeldDeltas, time \in TimeSamples :
            Frame(delta, time)) =>
        LET log == frameLog'
            writes == { i \in DOMAIN log : log[i].op = "write" }
        IN  /\ Cardinality(writes) = 1
            /\ \A w \in writes :
                 /\ log[w].who = "SceneContent"
                 /\ log[w].val = morphProgress'
                 /\ \A who \in { "Foliage", "Ornaments", "TopStar" } :
                      LET reads == { i \in DOMAIN log :
                                       log[i].who = who /\ log[i].op = "read" }
                      IN  /\ Cardinality(reads) = 1
                          /\ \A r \in reads : r < w /\ log[r].val = morphProgress
      ]_vars

\* A frame has changed the progress: what Foliage read differs from what
\* SceneContent wrote in the same frame.
C2_Witness ==
    /\ frameLog # <<>>
    /\ EventsOf("Foliage", "read") # {}
    /\ \A r \in EventsOf("Foliage", "read") : frameLog[r].val # morphProgress
    /\ foliage.uMorph # morphProgress

\* C4: a click on the button, at any point of a transition, changes the mode
\* (the target later ticks chase) and nothing the element positions are
\* computed from: the morph progress, the uniforms of Foliage, the instance
\* matrices of Ornaments and the transform of TopStar stay as they were.
C4_ToggleKeepsProgress ==
    [][ mode' # mode =>
          /\ morphProgress' = morphProgress
          /\ foliage'.uMorph = foliage.uMorph
          /\ foliage'.uTime = foliage.uTime
          /\ ornaments'.instanceMatrix = ornaments.instanceMatrix
          /\ topStar' = topStar
          /\ status = "mounted" =>
               \A i \in DOMAIN ornaments.data :
                 \A time \in TimeSamples :
                   OrnamentMatrix(ornaments'.data[i], i - 1, morphProgress', time,
                                  props'.scaleBase)
                     = OrnamentMatrix(ornaments.data[i], i - 1, morphProgress, time,
                                      props.scaleBase) ]_vars

\* The second click came in the middle of the transition toward the tree: the
\* latest frame raised the progress, which has not reached 1, and the mode is
\* SCATTERED again.
C4_Witness ==
    /\ toggles = 2
    /\ mode = "SCATTERED"
    /\ frameLog # <<>>
    /\ foliage.uMorph < morphProgress
    /\ morphProgress < Scale

\* C5: once a field is constructed, no click and no frame changes the data
\* generated at construction: the tree positions, scatter positions and seeds
\* of the particles, and the tree position, scatter position, rotation and
\* scale of the ornaments.
C5_ElementDataImmutable ==
    [][ status = "mounted" =>
          /\ foliage'.positions = foliage.positions
          /\ foliage'.scatterPositions = foliage.scatterPositions
          /\ foliage'.randoms = foliage.randoms
          /\ ornaments'.data = ornaments.data ]_vars

\* Two clicks and at least one frame after the construction of fields that
\* hold elements.
C5_Witness ==
    /\ status = "mounted"
    /\ toggles = 2
    /\ frameLog # <<>>
    /\ foliage.positions # <<>>
    /\ ornaments.data # <<>>

\* A count or scale base that is negative or not finite.
Invalid(a) == ~IsFinite(a) \/ a.v < 0

\* C8: a field constructed with a negative or non-finite count, or a negative
\* or non-finite scale base, fails at construction: the scene never mounts
\* with such an input.
C8_InvalidInputFailsFast ==
    ( Invalid(props.foliageCount) \/ Invalid(props.ornamentsCount)
        \/ Invalid(props.scaleBase) ) => status # "mounted"

\* A scene whose Ornaments were given a negative or non-finite scale base, or
\* a field a NaN count, has mounted and has rendered a frame.
C8_Witness ==
    /\ status = "mounted"
    /\ frameLog # <<>>
    /\ ( Invalid(props.foliageCount) \/ Invalid(props.ornamentsCount)
           \/ Invalid(props.scaleBase) )

\* C9: with count 0 construction succeeds and leaves the element buffers
\* empty (no particle, no ornament item, no instance slot), and no frame
\* writes an instance transform.
C9_ZeroCountIsLegal ==
    /\ ( (props.foliageCount = Fin(0) \/ props.ornamentsCount = Fin(0))
           /\ ~Invalid(props.foliageCount) /\ ~Invalid(props.ornamentsCount) )
         => status # "crashed"
    /\ (status = "mounted" /\ props.foliageCount = Fin(0)) =>
         /\ foliage.positions = <<>>
         /\ foliage.scatterPositions = <<>>
         /\ foliage.randoms = <<>>
    /\ (status = "mounted" /\ props.ornamentsCount = Fin(0)) =>
         /\ ornaments.data = <<>>
         /\ ornaments.instanceMatrix = <<>>
         /\ EventsOf("Ornaments", "setMatrixAt") = {}

\* A frame has run, in the middle of a transition, on a scene whose Ornaments
\* field was constructed with count 0: its callback ran to the end.
C9_Witness ==
    /\ status = "mounted"
    /\ props.ornamentsCount = Fin(0)
    /\ morphProgress > 0
    /\ EventsOf("Ornaments", "needsUpdate") # {}

\* A frame has run on a scene whose Foliage field was constructed with count 0.
C9_WitnessFoliage ==
    /\ status = "mounted"
    /\ props.foliageCount = Fin(0)
    /\ EventsOf("Foliage", "read") # {}

\* The progress Ornaments read in the latest frame.
OrnamentsRead == frameLog[CHOOSE r \in EventsOf("Ornaments", "read") : TRUE].val

\* The cubic ease-out of section 4.4: 1 - (1 - t)^3.
CubicEaseOut(t) ==
    Scale - RoundDiv(RoundDiv((Scale - t) * (Scale - t), Scale) * (Scale - t), Scale)

\* The plain interpolation from a to b by the fraction e.
Mix(a, b, e) == RoundDiv(a * (Scale - e) + b * e, Scale)

\* C10: after every frame in which Ornaments ran, each instance's position is
\* the interpolation from its scatter to its tree position by the cubic-eased
\* progress, plus, in X and Y only, a sinusoid of amplitude (1 - t) / 2 for the
\* raw progress t; Z carries no jitter, and at t = 1 the instance sits at its
\* tree position.
C10_JitterRawProgressXYOnly ==
    EventsOf("Ornaments", "read") # {} =>
        LET t == OrnamentsRead
            amp == MulFrac(Units(1, 2), Scale - t)
        IN  \A i \in DOMAIN ornaments.data :
              LET item == ornaments.data[i]
                  pos == ornaments.instanceMatrix[i].position
                  base == [ c \in 1..3 |->
                              Mix(item.scatter[c], item.tree[c], CubicEaseOut(t)) ]
              IN  /\ pos[3] = base[3]
                  /\ pos[1] - base[1] = MulFrac(amp, Sin(LastTime + 1000 * (i - 1)))
                  /\ pos[2] - base[2]
                       = MulFrac(amp, Cos(RoundDiv(LastTime * 8, 10) + 1000 * (i - 1)))
                  /\ t = Scale => pos = item.tree

\* Ornaments ran in the middle of a transition and moved an instance off the
\* plain interpolation in Y.
C10_Witness ==
    /\ EventsOf("Ornaments", "read") # {}
    /\ ornaments.data # <<>>
    /\ OrnamentsRead > 0
    /\ OrnamentsRead < Scale
    /\ ornaments.instanceMatrix[1].position[2]
         # Mix(ornaments.data[1].scatter[2], ornaments.data[1].tree[2],
               CubicEaseOut(OrnamentsRead))

\* The largest distance, per coordinate and in units of 1/PosScale, that
\* counts as "at the target position".
Epsilon == 1

\* Every particle is drawn within Epsilon of its tree position.
ParticlesAtTarget ==
    \A i \in DOMAIN foliage.positions :
      \A c \in 1..3 : Abs(FoliageVertex(i)[c] - foliage.positions[i][c]) <= Epsilon

InstanceIndices == { i \in 0..MaxCount : IndexBelow(i, props.ornamentsCount) }

\* The writes of the latest Ornaments frame update into instance index i.
WritesOf(i) ==
    { e \in EventsOf("Ornaments", "setMatrixAt") : frameLog[e].val = i }

\* C11: in every Ornaments frame update that found the mesh, each instance
\* index 0..count-1 is written exactly once, into a slot the buffer holds, no
\* other index is written, and the buffer is marked dirty exactly once, after
\* every write.
C11_EachInstanceOnceThenDirty ==
    EventsOf("Ornaments", "read") # {} =>
        /\ \A i \in InstanceIndices :
              /\ Cardinality(WritesOf(i)) = 1
              /\ i + 1 \in DOMAIN ornaments.instanceMatrix
        /\ \A e \in EventsOf("Ornaments", "setMatrixAt") :
              frameLog[e].val \in InstanceIndices
        /\ Cardinality(EventsOf("Ornaments", "needsUpdate")) = 1
        /\ \A e \in EventsOf("Ornaments", "setMatrixAt") :
              \A d \in EventsOf("Ornaments", "needsUpdate") : e < d

\* A frame update of Ornaments that hold at least two instances has written
\* them and marked the buffer dirty.
C11_Witness ==
    /\ status = "mounted"
    /\ Cardinality(InstanceIndices) >= 2
    /\ Cardinality(EventsOf("Ornaments", "setMatrixAt")) >= 2
    /\ EventsOf("Ornaments", "needsUpdate") # {}

====
